---- MODULE Spec2Model ----
(***************************************************************************)
(* Model of src/src/data_cleaning.py: the four cleaning functions          *)
(* clean_column_names, _to_numeric_clean, handle_missing_values and        *)
(* remove_invalid_rows, applied by a caller to a pandas DataFrame.         *)
(*                                                                         *)
(* Text is a sequence of one-character strings.  A cell is a record        *)
(* [k, s, v]: k = "str" (text s), "float" (the number v / Den), "int" (the *)
(* integer v), "nan" (float NaN / None after coercion), "na" (pd.NA),      *)
(* "inf" / "ninf" (the floats +inf / -inf).  Floats are modelled as exact  *)
(* rationals with denominator Den; "offgrid" marks a value the grid cannot *)
(* hold (the inputs are chosen so that it never appears, see GridExact).   *)
(* pandas before 3.0 is assumed: text columns have dtype object.           *)
(***************************************************************************)
EXTENDS Integers, Sequences, FiniteSets, TLC

\* ---------------------------------------------------------------- bounds

\* Most rows of a table the caller builds.
MaxRows == 3

\* Most elements of a series handed to _to_numeric_clean directly.
MaxLen == 4

\* Denominator of the float grid: five decimals and four halvings (a median
\* of two values halves once) are exact.
Den == (2 * 2 * 2 * 2) * (10 * 10 * 10 * 10 * 10)

\* ------------------------------------------------------------------ text

Digits == <<"0", "1", "2", "3", "4", "5", "6", "7", "8", "9">>

UpperCase == <<"A", "B", "C", "D", "E", "F", "G", "H", "I", "J", "K", "L", "M",
               "N", "O", "P", "Q", "R", "S", "T", "U", "V", "W", "X", "Y", "Z">>

LowerCase == <<"a", "b", "c", "d", "e", "f", "g", "h", "i", "j", "k", "l", "m",
               "n", "o", "p", "q", "r", "s", "t", "u", "v", "w", "x", "y", "z">>

IsDigit(c) == \E i \in 1..10 : Digits[i] = c

DigitVal(c) == (CHOOSE i \in 1..10 : Digits[i] = c) - 1

\* str.isspace for the characters of the model: blank and tab.
IsSpace(c) == c \in {" ", "\t"}

\* str.lower on one character.
LowerChar(c) ==
    IF \E i \in 1..26 : UpperCase[i] = c
    THEN LowerCase[CHOOSE i \in 1..26 : UpperCase[i] = c]
    ELSE c

LowerStr(s) == [i \in 1..Len(s) |-> LowerChar(s[i])]

RECURSIVE LStrip(_)
LStrip(s) ==
    IF s # <<>> /\ IsSpace(Head(s)) THEN LStrip(Tail(s)) ELSE s

RECURSIVE RStrip(_)
RStrip(s) ==
    IF s # <<>> /\ IsSpace(s[Len(s)]) THEN RStrip(SubSeq(s, 1, Len(s) - 1)) ELSE s

\* str.strip(): leading and trailing whitespace removed.
Strip(s) == RStrip(LStrip(s))

\* re.sub(r"\s+", "_", s): every maximal run of whitespace becomes one "_".
RECURSIVE CollapseWs(_)
CollapseWs(s) ==
    IF s = <<>> THEN <<>>
    ELSE IF IsSpace(Head(s)) THEN <<"_">> \o CollapseWs(LStrip(s))
    ELSE <<Head(s)>> \o CollapseWs(Tail(s))

\* The rename lambda of clean_column_names.
CanonicalName(c) == CollapseWs(LowerStr(Strip(c)))

\* str.replace(r"[^0-9.\-]", "", regex=True) on one string.
RECURSIVE RemoveCurrency(_)
RemoveCurrency(s) ==
    IF s = <<>> THEN <<>>
    ELSE IF IsDigit(Head(s)) \/ Head(s) \in {".", "-"}
         THEN <<Head(s)>> \o RemoveCurrency(Tail(s))
         ELSE RemoveCurrency(Tail(s))

\* ------------------------------------------------------------------ cells

Str(s) == [k |-> "str", s |-> s, v |-> 0]
Float(v) == [k |-> "float", s |-> <<>>, v |-> v]
IntCell(v) == [k |-> "int", s |-> <<>>, v |-> v]
NaN == [k |-> "nan", s |-> <<>>, v |-> 0]
PdNA == [k |-> "na", s |-> <<>>, v |-> 0]
Inf == [k |-> "inf", s |-> <<>>, v |-> 0]
NegInf == [k |-> "ninf", s |-> <<>>, v |-> 0]
OffGrid == [k |-> "offgrid", s |-> <<>>, v |-> 0]

\* Series.isna on one cell.
IsNa(c) == c.k \in {"nan", "na"}

\* --------------------------------------------------------------- numbers

Abs(n) == IF n < 0 THEN -n ELSE n

\* Largest magnitude (in grid units) the model's floats may take, so that the
\* sum of two stays inside TLC's integers.
GridMax == 600 * Den

RECURSIVE IntStr(_)
\* str(int) for n >= 0.
IntStr(n) ==
    IF n < 10 THEN <<Digits[n + 1]>>
    ELSE IntStr(n \div 10) \o <<Digits[(n % 10) + 1]>>

\* str(int).
SignedIntStr(n) == IF n < 0 THEN <<"-">> \o IntStr(-n) ELSE IntStr(n)

RECURSIVE FracDigits(_)
\* The decimal digits of r / Den after the point, 0 <= r < Den, without
\* trailing zeros (Den = 2^9 * 5^5 makes the expansion finite).
FracDigits(r) ==
    IF r = 0 THEN <<>>
    ELSE <<Digits[((r * 10) \div Den) + 1]>> \o FracDigits((r * 10) % Den)

RECURSIVE LeadingZeros(_)
LeadingZeros(s) ==
    IF s # <<>> /\ Head(s) = "0" THEN 1 + LeadingZeros(Tail(s)) ELSE 0

\* str(float) (float.__repr__): the shortest digits, in scientific notation
\* when the decimal point lies four or more places left of the first digit
\* (values below 1e-4); values of 1e16 and more are outside the grid.
FloatStr(v) ==
    LET a == Abs(v)
        ip == a \div Den
        f == FracDigits(a % Den)
        z == LeadingZeros(f)
        sig == SubSeq(f, z + 1, Len(f))
        sign == IF v < 0 THEN <<"-">> ELSE <<>>
    IN  IF ip = 0 /\ f # <<>> /\ z >= 4
        THEN sign \o <<Head(sig)>>
                  \o (IF Len(sig) > 1 THEN <<".">> \o Tail(sig) ELSE <<>>)
                  \o <<"e", "-">>
                  \o (IF z + 1 < 10 THEN <<"0">> ELSE <<>>) \o IntStr(z + 1)
        ELSE sign \o IntStr(ip) \o <<".">> \o (IF f = <<>> THEN <<"0">> ELSE f)

\* Series.astype(str) on one cell.
AsStr(c) ==
    CASE c.k = "str" -> c.s
      [] c.k = "float" -> FloatStr(c.v)
      [] c.k = "int" -> SignedIntStr(c.v)
      [] c.k = "nan" -> <<"n", "a", "n">>
      [] c.k = "na" -> <<"<", "N", "A", ">">>
      [] c.k = "inf" -> <<"i", "n", "f">>
      [] c.k = "ninf" -> <<"-", "i", "n", "f">>
      [] OTHER -> <<"?">>

\* ------------------------------------------------------------- to_numeric

RECURSIVE DigitPrefixLen(_)
\* Length of the longest prefix of s made of digits.
DigitPrefixLen(s) ==
    IF s # <<>> /\ IsDigit(Head(s)) THEN 1 + DigitPrefixLen(Tail(s)) ELSE 0

RECURSIVE IntOf(_)
\* The integer a digit string spells (0 for the empty string), capped above
\* the grid so that long digit strings do not overflow.
IntOf(ds) ==
    IF ds = <<>> THEN 0
    ELSE LET hi == IntOf(SubSeq(ds, 1, Len(ds) - 1))
         IN  IF hi > 1000 THEN 10000 ELSE hi * 10 + DigitVal(ds[Len(ds)])

RECURSIVE FracOf(_)
\* The grid value of 0.ds, or -1 when the grid cannot hold it exactly.
FracOf(ds) ==
    IF ds = <<>> THEN 0
    ELSE LET rest == FracOf(Tail(ds))
             sum == rest + DigitVal(Head(ds)) * Den
         IN  IF rest < 0 \/ sum % 10 # 0 THEN -1 ELSE sum \div 10

RECURSIVE Scale10(_, _)
\* v * 10^e on the grid, or GridMax + 1 when the grid cannot hold it.
Scale10(v, e) ==
    IF e = 0 \/ v = 0 THEN v
    ELSE IF e > 0
         THEN IF Abs(v) > GridMax \div 10 THEN GridMax + 1 ELSE Scale10(v * 10, e - 1)
         ELSE IF v % 10 # 0 THEN GridMax + 1 ELSE Scale10(v \div 10, e + 1)

\* The value mant * 10^ex (ex negated when eneg) with its sign, as a cell.
DecimalValue(neg, ip, fp, ex, eneg) ==
    IF ip > 600 \/ fp < 0 \/ ex > 20 THEN OffGrid
    ELSE IF Abs(Scale10(ip * Den + fp, IF eneg THEN -ex ELSE ex)) > GridMax THEN OffGrid
    ELSE Float((IF neg THEN -1 ELSE 1) * Scale10(ip * Den + fp, IF eneg THEN -ex ELSE ex))

\* The exponent digits eds and what follows them.
ParseExponentDigits(neg, ids, fds, hasE, eneg, s, ne) ==
    IF (hasE /\ ne = 0) \/ ne < Len(s) THEN NaN
    ELSE DecimalValue(neg, IntOf(ids), FracOf(fds), IntOf(SubSeq(s, 1, ne)), eneg)

\* The exponent's sign.
ParseExponentSign(neg, ids, fds, hasE, s) ==
    ParseExponentDigits(neg, ids, fds, hasE,
        hasE /\ s # <<>> /\ Head(s) = "-",
        IF hasE /\ s # <<>> /\ Head(s) \in {"-", "+"} THEN Tail(s) ELSE s,
        IF hasE
        THEN DigitPrefixLen(IF s # <<>> /\ Head(s) \in {"-", "+"} THEN Tail(s) ELSE s)
        ELSE 0)

\* The exponent mark after the mantissa; a mantissa needs one digit at least.
ParseExponent(neg, ids, fds, s) ==
    IF Len(ids) + Len(fds) = 0 THEN NaN
    ELSE ParseExponentSign(neg, ids, fds,
             s # <<>> /\ Head(s) \in {"e", "E"},
             IF s # <<>> /\ Head(s) \in {"e", "E"} THEN Tail(s) ELSE s)

\* The digits after the point.
ParseFractionDigits(neg, ids, s, nf) ==
    ParseExponent(neg, ids, SubSeq(s, 1, nf), SubSeq(s, nf + 1, Len(s)))

\* The point after the integer digits.
ParseFraction(neg, ids, s) ==
    IF s # <<>> /\ Head(s) = "."
    THEN ParseFractionDigits(neg, ids, Tail(s), DigitPrefixLen(Tail(s)))
    ELSE ParseExponent(neg, ids, <<>>, s)

\* The integer digits.
ParseIntegerDigits(neg, s, ni) ==
    ParseFraction(neg, SubSeq(s, 1, ni), SubSeq(s, ni + 1, Len(s)))

\* The decimal grammar of pandas' string-to-double: [sign] digits [. digits]
\* [e [sign] digits], at least one mantissa digit, nothing left over.
\* Returns a cell: Float(v), NaN when the text does not parse, OffGrid when
\* it parses to a value outside the grid.
ParseUnsigned(neg, s) == ParseIntegerDigits(neg, s, DigitPrefixLen(s))

ParseDecimal(s) ==
    ParseUnsigned(s # <<>> /\ Head(s) = "-",
                  IF s # <<>> /\ Head(s) \in {"-", "+"} THEN Tail(s) ELSE s)

\* The text names a float: "nan", "inf" or "infinity" in any case, signed or not.
NamedFloat(neg, body) ==
    IF body = <<"n", "a", "n">> THEN NaN
    ELSE IF body \in {<<"i", "n", "f">>, <<"i", "n", "f", "i", "n", "i", "t", "y">>}
         THEN (IF neg THEN NegInf ELSE Inf)
    ELSE OffGrid

IsNamedFloat(body) ==
    body \in {<<"n", "a", "n">>, <<"i", "n", "f">>, <<"i", "n", "f", "i", "n", "i", "t", "y">>}

\* Text through pd.to_numeric.
ParseText(t) ==
    IF IsNamedFloat(LowerStr(IF t # <<>> /\ Head(t) \in {"-", "+"} THEN Tail(t) ELSE t))
    THEN NamedFloat(t # <<>> /\ Head(t) = "-",
                    LowerStr(IF t # <<>> /\ Head(t) \in {"-", "+"} THEN Tail(t) ELSE t))
    ELSE ParseDecimal(t)

\* pd.to_numeric(errors="coerce") on one element: None and NaN stay missing,
\* numbers stay, text is parsed ("nan", "inf" and "infinity" in any case are
\* the floats of that name), anything else becomes NaN.
ToNumeric(c) ==
    IF c.k = "str" THEN ParseText(Strip(c.s))
    ELSE IF IsNa(c) THEN NaN
    ELSE IF c.k = "int" THEN Float(c.v * Den)
    ELSE c

\* ----------------------------------------------------------------- tables

\* A DataFrame: its columns in order (name and dtype), its rows (each a
\* sequence of cells parallel to cols) and its row labels.
Table(cols, rows, index) == [cols |-> cols, rows |-> rows, index |-> index]

Col(name, dtype) == [name |-> name, dtype |-> dtype]

\* The RangeIndex 0 .. n-1.
RangeIndex(n) == [i \in 1..n |-> i - 1]

EmptyTable == Table(<<>>, <<>>, <<>>)

NRows(df) == Len(df.rows)

\* name in df.columns
HasCol(df, name) == \E i \in 1..Len(df.cols) : df.cols[i].name = name

\* Position of the column called name.
ColPos(df, name) == CHOOSE i \in 1..Len(df.cols) : df.cols[i].name = name

\* df[name] as the sequence of its cells.
Column(df, name) == [r \in 1..NRows(df) |-> df.rows[r][ColPos(df, name)]]

\* df[name] = (series, dtype): replaces the column, or appends it when the
\* frame has none of that name.
SetColumn(df, name, series, dtype) ==
    IF HasCol(df, name)
    THEN LET p == ColPos(df, name)
         IN  [df EXCEPT !.cols[p].dtype = dtype,
                        !.rows = [r \in 1..NRows(df) |->
                                     [df.rows[r] EXCEPT ![p] = series[r]]]]
    ELSE [df EXCEPT !.cols = Append(df.cols, Col(name, dtype)),
                    !.rows = [r \in 1..NRows(df) |-> Append(df.rows[r], series[r])]]

RECURSIVE KeepRows(_, _)
\* The positions 1..n of the rows a boolean mask keeps, in order.
KeepRows(n, keep) ==
    IF n = 0 THEN <<>>
    ELSE IF keep[n] THEN Append(KeepRows(n - 1, keep), n) ELSE KeepRows(n - 1, keep)

\* df[mask]: the rows the mask keeps, with their labels.
Mask(df, keep) ==
    LET ks == KeepRows(NRows(df), keep)
    IN  [df EXCEPT !.rows = [i \in 1..Len(ks) |-> df.rows[ks[i]]],
                   !.index = [i \in 1..Len(ks) |-> df.index[ks[i]]]]

\* What a call leaves behind: whether it raised, the frame it returned and the
\* frame the caller passed in, as it is after the call.
Returned(ret, arg) == [raised |-> FALSE, ret |-> ret, arg |-> arg]

Raised(arg) == [raised |-> TRUE, ret |-> EmptyTable, arg |-> arg]

\* ------------------------------------------------------ clean_column_names

PRICE == <<"p", "r", "i", "c", "e">>
QUANTITY == <<"q", "u", "a", "n", "t", "i", "t", "y">>
PRODUCT == <<"p", "r", "o", "d", "u", "c", "t">>

\* df.rename(columns=...): a new frame with every name canonicalised.
Rename(df) ==
    [df EXCEPT !.cols = [i \in 1..Len(df.cols) |->
                            [df.cols[i] EXCEPT !.name = CanonicalName(df.cols[i].name)]]]

\* Two columns carry the same name: df[col] is then a DataFrame, which has no
\* dtype attribute.
DuplicateNames(df) ==
    \E i, j \in 1..Len(df.cols) : i # j /\ df.cols[i].name = df.cols[j].name

\* df[col].astype(str).str.strip() for every column of dtype object.
StripObjectColumns(df) ==
    [df EXCEPT !.rows = [r \in 1..NRows(df) |->
        [i \in 1..Len(df.cols) |->
            IF df.cols[i].dtype = "object"
            THEN Str(Strip(AsStr(df.rows[r][i])))
            ELSE df.rows[r][i]]]]

clean_column_names(df) ==
    LET renamed == Rename(df)
    IN  IF DuplicateNames(renamed) THEN Raised(df)
        ELSE Returned(StripObjectColumns(renamed), df)

\* ------------------------------------------------------- _to_numeric_clean

\* The keys of the replace() dictionary: "", "nan", "None", "N/A", "NA".
Sentinels ==
    {<<>>, <<"n", "a", "n">>, <<"N", "o", "n", "e">>, <<"N", "/", "A">>, <<"N", "A">>}

\* ToNumericClean1 with the currency pattern never applied.
ToNumericCleanKeepNoise(c, remove_currency) ==
    IF Strip(AsStr(c)) \in Sentinels THEN NaN ELSE ToNumeric(Str(Strip(AsStr(c))))

\* One element through _to_numeric_clean.
\* Line 49 and line 50 on text already trimmed and stripped of noise.
ReplaceAndParse(s) == IF s \in Sentinels THEN NaN ELSE ToNumeric(Str(s))

\* Lines 47-48 on one trimmed text.
StripNoise(s, remove_currency) == IF remove_currency THEN RemoveCurrency(s) ELSE s

ToNumericClean1(c, remove_currency) ==
    ReplaceAndParse(StripNoise(Strip(AsStr(c)), remove_currency))

_to_numeric_clean(series, remove_currency) ==
    [i \in 1..Len(series) |-> ToNumericClean1(series[i], remove_currency)]

\* --------------------------------------------------- handle_missing_values

\* Lines 64-67: price coerced in place, or created holding pd.NA.
CoercePrice(df) ==
    IF HasCol(df, PRICE)
    THEN SetColumn(df, PRICE, _to_numeric_clean(Column(df, PRICE), TRUE), "float64")
    ELSE SetColumn(df, PRICE, [r \in 1..NRows(df) |-> PdNA], "object")

\* Lines 69-72: quantity coerced in place, or created holding pd.NA.
CoerceQuantity(df) ==
    IF HasCol(df, QUANTITY)
    THEN SetColumn(df, QUANTITY, _to_numeric_clean(Column(df, QUANTITY), FALSE), "float64")
    ELSE SetColumn(df, QUANTITY, [r \in 1..NRows(df) |-> PdNA], "object")

\* Lines 64-72.
CoerceColumns(df) == CoerceQuantity(CoercePrice(df))

\* Series.fillna(value) on one cell.
FillNa(c, value) == IF IsNa(c) THEN value ELSE c

\* astype(int) refuses a series holding a non-finite value.
NonFinite(series) == \E i \in 1..Len(series) : series[i].k \in {"inf", "ninf", "nan", "na"}

\* astype(int) on one finite cell: a float is truncated toward zero.
AsInt(c) ==
    IF c.k = "float"
    THEN IntCell(IF c.v >= 0 THEN c.v \div Den ELSE -((-c.v) \div Den))
    ELSE c

\* The cells of a series that are not missing, as grid values in series order.
RECURSIVE NotNaValues(_)
NotNaValues(series) ==
    IF series = <<>> THEN <<>>
    ELSE IF IsNa(Head(series)) THEN NotNaValues(Tail(series))
    ELSE <<Head(series).v>> \o NotNaValues(Tail(series))

\* Series.median(): the middle of the sorted non-missing values, the mean of
\* the two middle ones for an even count.
Median(series) ==
    LET sorted == SortSeq(NotNaValues(series), LAMBDA a, b : a < b)
        n == Len(sorted)
    IN  IF n % 2 = 1 THEN Float(sorted[(n + 1) \div 2])
        ELSE LET sum == sorted[n \div 2] + sorted[(n \div 2) + 1]
             IN  IF sum % 2 = 0 THEN Float(sum \div 2) ELSE OffGrid

\* Lines 78-84: missing prices take the median, or 0.0 when no price is known.
FillPrice(series) ==
    IF \E i \in 1..Len(series) : ~IsNa(series[i])
    THEN LET median_price == Median(series)
         IN  [i \in 1..Len(series) |-> FillNa(series[i], median_price)]
    ELSE [i \in 1..Len(series) |-> FillNa(series[i], Float(0))]

\* Line 75: fillna(1).astype(int).
FillQuantity(series) ==
    [i \in 1..Len(series) |-> AsInt(FillNa(series[i], Float(Den)))]

\* Line 75 on the frame.
SetQuantity(df) == SetColumn(df, QUANTITY, FillQuantity(Column(df, QUANTITY)), "int64")

\* Lines 78-84 on the frame.
SetPrice(df) == SetColumn(df, PRICE, FillPrice(Column(df, PRICE)), "float64")

\* return df: the frame returned is the frame passed in.
ReturnSame(df) == Returned(df, df)

\* Lines 75-86 on the frame with both columns coerced: astype(int) raises on a
\* quantity that is not finite and leaves the frame as it is by then.
FillColumns(df) ==
    IF NonFinite([i \in 1..NRows(df) |-> FillNa(Column(df, QUANTITY)[i], Float(Den))])
    THEN Raised(df)
    ELSE ReturnSame(SetPrice(SetQuantity(df)))

\* The function assigns into the frame it was given and returns that frame.
handle_missing_values(df) == FillColumns(CoerceColumns(df))

\* ----------------------------------------------------- remove_invalid_rows

\* Positive with the comparison weakened to >= 0.
PositiveOrZero(c) == c.k = "inf" \/ (c.k \in {"float", "int"} /\ c.v >= 0)

\* series > 0 on one cell.
Positive(c) == c.k = "inf" \/ (c.k \in {"float", "int"} /\ c.v > 0)

\* Line 95: rows whose price and quantity are both present.
PresentRows(df) ==
    Mask(df, [r \in 1..NRows(df) |->
                 ~IsNa(Column(df, PRICE)[r]) /\ ~IsNa(Column(df, QUANTITY)[r])])

\* Line 98: rows whose price and quantity are both above zero.
PositiveRows(df) ==
    Mask(df, [r \in 1..NRows(df) |->
                 Positive(Column(df, PRICE)[r]) /\ Positive(Column(df, QUANTITY)[r])])

\* Comparing text with 0 raises TypeError.
HoldsText(df, name) == \E r \in 1..NRows(df) : Column(df, name)[r].k = "str"

\* ProductOk without the strip: blank text counts as a product.
ProductOkUnstripped(c) == ~IsNa(c) /\ (c.k = "str" => c.s # <<>>)

\* Line 102 on one cell: present, and not empty once stripped (a non-text
\* element has no stripped form and compares unequal to "").
ProductOk(c) == ~IsNa(c) /\ (c.k = "str" => Strip(c.s) # <<>>)

\* Lines 101-102: rows with a product, when the frame has that column.
ProductRows(df) ==
    IF HasCol(df, PRODUCT)
    THEN Mask(df, [r \in 1..NRows(df) |-> ProductOk(Column(df, PRODUCT)[r])])
    ELSE df

\* Line 104: reset_index(drop=True).
ResetIndex(df) == [df EXCEPT !.index = RangeIndex(NRows(df))]

\* .str on a product column that is not of dtype object raises.
ProductNotText(df) ==
    HasCol(df, PRODUCT) /\ df.cols[ColPos(df, PRODUCT)].dtype # "object"

\* Lines 98-104 on the rows line 95 kept; orig is the caller's frame.
FilterPresent(d1, orig) ==
    IF HoldsText(d1, PRICE) \/ HoldsText(d1, QUANTITY) \/ ProductNotText(d1)
    THEN Raised(orig)
    ELSE Returned(ResetIndex(ProductRows(PositiveRows(d1))), orig)

\* df["price"] raises KeyError on a frame without the column; the caller's
\* frame is never assigned to.
remove_invalid_rows(df) ==
    IF ~HasCol(df, PRICE) \/ ~HasCol(df, QUANTITY) THEN Raised(df)
    ELSE FilterPresent(PresentRows(df), df)

\* ------------------------------------------------------------ the inputs

\* Raw rows as load_data reads them (every cell text, or NaN for an empty
\* field), as product / price / quantity.
RawRow(product, price, quantity) ==
    [product |-> product, price |-> price, quantity |-> quantity]

RawRows ==
    { RawRow(Str(<<" ", "G", "o", "o", "d">>), Str(<<"$", "1", "0", ".", "0", "0">>), Str(<<"2">>)),
      RawRow(Str(<<"B", "a", "d", "P", "r", "i", "c", "e">>), Str(<<"-", "5", ".", "0", "0">>), Str(<<"1">>)),
      RawRow(Str(<<"N", "o", "Q", "t", "y">>), Str(<<"1", "2", ".", "0", "0">>), Str(<<>>)),
      RawRow(Str(<<" ">>), Str(<<"7", ".", "5", "0">>), Str(<<"3">>)),
      RawRow(NaN, Str(<<"N", "/", "A">>), Str(<<"a", "b", "c">>)),
      RawRow(Str(<<"T">>), Str(<<"0", ".", "0", "0", "0", "0", "1">>), Str(<<" ", "-", "2", " ">>)),
      RawRow(Str(<<"I">>), Str(<<"5">>), Str(<<"i", "n", "f">>)),
      RawRow(Str(<<"H">>), Str(<<"2", ".", "5">>), Str(<<"0", ".", "5">>)) }

\* A header: for each column its raw name and the field of the raw row it shows.
HCol(name, field) == [name |-> name, field |-> field]

Headers ==
    { <<HCol(<<"P", "r", "o", "d", "u", "c", "t", " ">>, "product"),
        HCol(<<" ", "P", "r", "i", "c", "e">>, "price"),
        HCol(<<"Q", "u", "a", "n", "t", "i", "t", "y", " ">>, "quantity")>>,
      <<HCol(PRODUCT, "product"), HCol(PRICE, "price"), HCol(QUANTITY, "quantity")>>,
      <<HCol(<<"P", "r", "i", "c", "e">>, "price"), HCol(<<"p", "r", "i", "c", "e", " ">>, "price"),
        HCol(QUANTITY, "quantity")>>,
      <<HCol(PRODUCT, "product"), HCol(QUANTITY, "quantity")>>,
      <<HCol(PRODUCT, "product"), HCol(PRICE, "price")>>,
      <<HCol(<<"I", "t", "e", "m", " ", "\t", "N", "o">>, "product"), HCol(PRICE, "price"),
        HCol(QUANTITY, "quantity")>> }

\* The frame pd.read_csv(dtype=str) builds from a header and raw rows.
RawTable(h, rs) ==
    Table([i \in 1..Len(h) |-> Col(h[i].name, "object")],
          [r \in 1..Len(rs) |-> [i \in 1..Len(h) |->
              CASE h[i].field = "product" -> rs[r].product
                [] h[i].field = "price" -> rs[r].price
                [] OTHER -> rs[r].quantity]],
          RangeIndex(Len(rs)))

SeqsUpTo(S, n) == UNION {[1..k -> S] : k \in 0..n}

\* Rows as they are after imputation, or as a caller may hand them to
\* remove_invalid_rows directly: numbers or NaN for price and quantity.
TypedRows ==
    { RawRow(Str(<<"G", "o", "o", "d">>), Float(10 * Den), Float(2 * Den)),
      RawRow(Str(<<"B">>), Float(-5 * Den), Float(Den)),
      RawRow(Str(<<"C">>), Float(0), Float(Den)),
      RawRow(Str(<<"D">>), Float(12 * Den), Float(0)),
      RawRow(Str(<<"E">>), NaN, Float(Den)),
      RawRow(Str(<<"F">>), Float(7 * Den + Den \div 2), NaN),
      RawRow(Str(<<>>), Float(7 * Den + Den \div 2), Float(3 * Den)),
      RawRow(Str(<<" ", "\t">>), Float(2 * Den), Float(Den)),
      RawRow(NaN, Float(2 * Den), Float(Den)),
      RawRow(Str(<<" ", "o", "k", " ">>), Float(Den \div 100000), Float(Den)),
      RawRow(Str(<<"H">>), Float(5 * Den), Float(-2 * Den)) }

TypedHeaders ==
    { <<HCol(PRODUCT, "product"), HCol(PRICE, "price"), HCol(QUANTITY, "quantity")>>,
      <<HCol(QUANTITY, "quantity"), HCol(PRICE, "price")>>,
      <<HCol(<<"i", "t", "e", "m">>, "product"), HCol(QUANTITY, "quantity"),
        HCol(PRICE, "price")>> }

\* The dtype of a column showing the given field of typed rows.
TypedDtype(field) == IF field = "product" THEN "object" ELSE "float64"

TypedTable(h, rs) ==
    [RawTable(h, rs) EXCEPT !.cols = [i \in 1..Len(h) |-> Col(h[i].name, TypedDtype(h[i].field))]]

TypedTables == {TypedTable(h, rs) : h \in TypedHeaders, rs \in SeqsUpTo(TypedRows, MaxRows)}

\* Raw values handed to _to_numeric_clean on its own.
RawValues ==
    { Str(<<"N", "/", "A">>), Str(<<>>), Str(<<"7", ".", "5", "0">>), Str(<<"a", "b", "c">>),
      Str(<<" ", "$", "1", ",", "2", "5", ".", "5", " ">>), Str(<<"N", "o", "n", "e">>),
      Str(<<"1", "-", "2">>), Str(<<"-", "3">>), NaN }

RawTables == {RawTable(h, rs) : h \in Headers, rs \in SeqsUpTo(RawRows, MaxRows)}

\* ------------------------------------------------------- the state machine

VARIABLES
    df,       \* the frame the caller's variable is bound to
    pc,       \* "run", or "crashed" once a call has raised
    last,     \* the last call: its name, its argument before and after, its result
    prev,     \* the call before the last one
    pos,      \* statements of the __main__ script done so far, -1 once off the script
    raw,      \* the frame the caller started with
    series,   \* a series handed to _to_numeric_clean directly
    coerced   \* the last direct call of _to_numeric_clean: flag and result

vars == <<df, pc, last, prev, pos, raw, series, coerced>>

NoCall == [op |-> "none", before |-> EmptyTable, after |-> EmptyTable,
           ret |-> EmptyTable, raised |-> FALSE]

NoCoercion == [called |-> FALSE, remove_currency |-> FALSE, output |-> <<>>]

\* The record of the call op(before) that ended as outcome.
CallRecord(op, before, outcome) ==
    [op |-> op, before |-> before, after |-> outcome.arg,
     ret |-> outcome.ret, raised |-> outcome.raised]

\* The frame the caller's variable is bound to after df = f(df): the result,
\* or still the argument (as the call left it) when the call raised.
Rebound(outcome) == IF outcome.raised THEN outcome.arg ELSE outcome.ret

\* An exception is not caught anywhere: the program ends.
PcAfter(outcome) == IF outcome.raised THEN "crashed" ELSE "run"

\* The script's position after a call that is its statement number step.
PosAfter(step, outcome) ==
    IF pos = step - 1 THEN (IF outcome.raised THEN pos ELSE step) ELSE -1

\* df_clean = clean_column_names(df_raw)
CleanColumnNames ==
    LET outcome == clean_column_names(df)
    IN  /\ pc = "run"
        /\ last' = CallRecord("clean_column_names", df, outcome)
        /\ prev' = last
        /\ df' = Rebound(outcome)
        /\ pc' = PcAfter(outcome)
        /\ pos' = PosAfter(1, outcome)
        /\ UNCHANGED <<raw, series, coerced>>

\* df_clean = handle_missing_values(df_clean)
HandleMissingValues ==
    LET outcome == handle_missing_values(df)
    IN  /\ pc = "run"
        /\ last' = CallRecord("handle_missing_values", df, outcome)
        /\ prev' = last
        /\ df' = Rebound(outcome)
        /\ pc' = PcAfter(outcome)
        /\ pos' = PosAfter(2, outcome)
        /\ UNCHANGED <<raw, series, coerced>>

\* df_clean = remove_invalid_rows(df_clean)
RemoveInvalidRows ==
    LET outcome == remove_invalid_rows(df)
    IN  /\ pc = "run"
        /\ last' = CallRecord("remove_invalid_rows", df, outcome)
        /\ prev' = last
        /\ df' = Rebound(outcome)
        /\ pc' = PcAfter(outcome)
        /\ pos' = PosAfter(3, outcome)
        /\ UNCHANGED <<raw, series, coerced>>

\* _to_numeric_clean(series, remove_currency) called on its own.
ToNumericClean ==
    /\ ~coerced.called
    /\ \E remove_currency \in BOOLEAN :
          coerced' = [called |-> TRUE, remove_currency |-> remove_currency,
                      output |-> _to_numeric_clean(series, remove_currency)]
    /\ UNCHANGED <<df, pc, last, prev, pos, raw, series>>

Start(t) ==
    /\ df = t
    /\ raw = t
    /\ pc = "run"
    /\ last = NoCall
    /\ prev = NoCall
    /\ pos = 0
    /\ coerced = NoCoercion

\* The caller loads a raw frame and calls the three stages in any order.
Init == \E t \in RawTables : Start(t) /\ series = <<>>

Next == CleanColumnNames \/ HandleMissingValues \/ RemoveInvalidRows

Spec == Init /\ [][Next]_vars

\* The caller hands remove_invalid_rows a frame whose price and quantity are
\* already numeric.
InitFilter == \E t \in TypedTables : Start(t) /\ series = <<>>

NextFilter == RemoveInvalidRows

SpecFilter == InitFilter /\ [][NextFilter]_vars

\* The caller hands _to_numeric_clean a series of raw values.
InitCoerce == Start(EmptyTable) /\ series \in SeqsUpTo(RawValues, MaxLen)

NextCoerce == ToNumericClean

SpecCoerce == InitCoerce /\ [][NextCoerce]_vars

\* -------------------------------------------------------------- the claims

\* A cell holding a number above zero.
StrictlyPositive(c) == c.k = "inf" \/ (c.k \in {"float", "int"} /\ c.v > 0)

\* A cell holding a number or nothing.
NumericOrMissing(c) == c.k \in {"float", "int", "inf", "ninf", "nan", "na"}

\* A frame with price and quantity columns holding numbers or missing values,
\* and text or missing values as products.
FilterInput(t) ==
    /\ HasCol(t, PRICE) /\ HasCol(t, QUANTITY)
    /\ \A r \in 1..NRows(t) :
         NumericOrMissing(Column(t, PRICE)[r]) /\ NumericOrMissing(Column(t, QUANTITY)[r])
    /\ HasCol(t, PRODUCT) => t.cols[ColPos(t, PRODUCT)].dtype = "object"

\* C1: for every table with price and quantity columns, remove_invalid_rows
\* returns a table in which every row has price > 0 and quantity > 0, with no
\* more rows than the input.
C1_FilterKeepsOnlyPositive ==
    (last.op = "remove_invalid_rows" /\ FilterInput(last.before)) =>
        /\ ~last.raised
        /\ NRows(last.ret) <= NRows(last.before)
        /\ \A r \in 1..NRows(last.ret) :
             /\ StrictlyPositive(Column(last.ret, PRICE)[r])
             /\ StrictlyPositive(Column(last.ret, QUANTITY)[r])

\* C1's case: a three-row table from which a zero price, a zero quantity or a
\* missing value was filtered out and a row survived.
C1_Witness ==
    /\ last.op = "remove_invalid_rows" /\ FilterInput(last.before)
    /\ NRows(last.before) = 3 /\ NRows(last.ret) = 1
    /\ \E r \in 1..3 : Column(last.before, PRICE)[r] = Float(0)
    /\ \E r \in 1..3 : IsNa(Column(last.before, QUANTITY)[r])

\* The conditions a row must satisfy to survive, as the claim lists them.
ValidRow(t, r) ==
    /\ ~IsNa(Column(t, PRICE)[r]) /\ ~IsNa(Column(t, QUANTITY)[r])
    /\ StrictlyPositive(Column(t, PRICE)[r])
    /\ StrictlyPositive(Column(t, QUANTITY)[r])
    /\ HasCol(t, PRODUCT) =>
         LET c == Column(t, PRODUCT)[r]
         IN  ~IsNa(c) /\ Strip(c.s) # <<>>

\* The rows of t that satisfy ValidRow, in input order.
ValidRows(t) == KeepRows(NRows(t), [r \in 1..NRows(t) |-> ValidRow(t, r)])

\* C9: remove_invalid_rows returns exactly the valid rows of its input, in
\* input order (the product condition applying only when the column exists),
\* under the same columns, labelled 0 .. n-1.
C9_FilterIsStableSubsequence ==
    (last.op = "remove_invalid_rows" /\ FilterInput(last.before)) =>
        LET ks == ValidRows(last.before)
        IN  /\ ~last.raised
            /\ last.ret.cols = last.before.cols
            /\ last.ret.rows = [i \in 1..Len(ks) |-> last.before.rows[ks[i]]]
            /\ last.ret.index = [i \in 1..Len(ks) |-> i - 1]

\* C9's case: a row with an empty or blank product and valid price and
\* quantity is removed, and a later row survives under a new label.
C9_Witness ==
    /\ last.op = "remove_invalid_rows" /\ FilterInput(last.before)
    /\ HasCol(last.before, PRODUCT)
    /\ NRows(last.before) = 3 /\ NRows(last.ret) = 2
    /\ LET c == Column(last.before, PRODUCT)[2]
       IN  /\ c.k = "str" /\ c.s # <<>> /\ Strip(c.s) = <<>>
           /\ StrictlyPositive(Column(last.before, PRICE)[2])
           /\ StrictlyPositive(Column(last.before, QUANTITY)[2])
    /\ last.ret.rows[2] = last.before.rows[3]

\* What the claim says one element coerces to: the number its trimmed (and,
\* with the flag, stripped) text parses to, no value for an empty text, a
\* sentinel or a text that does not parse.
ExpectedCoercion(c, stripCurrencyNoise) ==
    LET trimmed == Strip(AsStr(c))
        text == IF stripCurrencyNoise THEN RemoveCurrency(trimmed) ELSE trimmed
    IN  IF text = <<>> \/ text \in Sentinels THEN NaN ELSE ToNumeric(Str(text))

\* The series of the spec's scenario and its result.
ScenarioSeries ==
    <<Str(<<"N", "/", "A">>), Str(<<>>), Str(<<"7", ".", "5", "0">>), Str(<<"a", "b", "c">>)>>

ScenarioCoerced == <<NaN, NaN, Float(7 * Den + Den \div 2), NaN>>

\* C6: _to_numeric_clean returns, for either flag, a series of the input's
\* length whose i-th element is the number parsed from the i-th input's
\* cleaned text, or no value; ["N/A", "", "7.50", "abc"] with the flag set
\* gives [missing, missing, 7.5, missing].
C6_CoerceIsTotalAndElementwise ==
    coerced.called =>
        /\ Len(coerced.output) = Len(series)
        /\ \A i \in 1..Len(series) :
             /\ coerced.output[i] = ExpectedCoercion(series[i], coerced.remove_currency)
             /\ coerced.output[i].k \in {"float", "nan", "inf", "ninf"}
        /\ (series = ScenarioSeries /\ coerced.remove_currency) =>
             coerced.output = ScenarioCoerced

\* C6's case: the scenario's series coerced with the flag set, and a series
\* holding currency noise coerced to a number.
C6_Witness ==
    /\ coerced.called /\ coerced.remove_currency
    /\ series = ScenarioSeries
    /\ coerced.output[3] = Float(7 * Den + Den \div 2)

\* The cells of column name of t, or missing values when t has no such column.
ColumnOrMissing(t, name) ==
    IF HasCol(t, name) THEN Column(t, name) ELSE [r \in 1..NRows(t) |-> NaN]

\* Column name of t coerced as the claims describe it.
CoercedColumn(t, name, stripCurrencyNoise) ==
    LET c == ColumnOrMissing(t, name)
    IN  [r \in 1..NRows(t) |-> ExpectedCoercion(c[r], stripCurrencyNoise)]

\* A table as clean_column_names leaves it: canonical, distinct column names
\* and trimmed text in every cell.
Normalized(t) ==
    /\ ~DuplicateNames(t)
    /\ \A i \in 1..Len(t.cols) :
         /\ CanonicalName(t.cols[i].name) = t.cols[i].name
         /\ t.cols[i].dtype = "object"
    /\ \A r \in 1..NRows(t) : \A i \in 1..Len(t.cols) :
         t.rows[r][i].k = "str" /\ Strip(t.rows[r][i].s) = t.rows[r][i].s

\* A number truncated toward zero, as an integer cell.
Truncated(c) == IntCell(IF c.v >= 0 THEN c.v \div Den ELSE -((-c.v) \div Den))

\* C2 as claimed: on every normalized table handle_missing_values returns a
\* table with the same rows in which a missing quantity is the integer 1 and
\* every other quantity is its coerced value truncated to an integer.
C2_QuantityFilledWithOne ==
    (last.op = "handle_missing_values" /\ Normalized(last.before)) =>
        LET q == CoercedColumn(last.before, QUANTITY, FALSE)
        IN  /\ ~last.raised
            /\ NRows(last.ret) = NRows(last.before)
            /\ \A r \in 1..NRows(last.before) :
                 Column(last.ret, QUANTITY)[r] =
                     IF IsNa(q[r]) THEN IntCell(1) ELSE Truncated(q[r])

\* The values of a series that are not missing, as a set of positions.
Known(ser) == {r \in 1..Len(ser) : ~IsNa(ser[r])}

\* The k-th smallest of the known values of a series, by counting.
KthSmallest(ser, k) ==
    LET v == CHOOSE x \in {ser[r].v : r \in Known(ser)} :
                 /\ Cardinality({r \in Known(ser) : ser[r].v < x}) < k
                 /\ Cardinality({r \in Known(ser) : ser[r].v <= x}) >= k
    IN  v

\* Twice the median of the known values: the middle one doubled, or the sum
\* of the two middle ones.
TwiceMedian(ser) ==
    LET n == Cardinality(Known(ser))
    IN  IF n % 2 = 1 THEN 2 * KthSmallest(ser, (n + 1) \div 2)
        ELSE KthSmallest(ser, n \div 2) + KthSmallest(ser, (n \div 2) + 1)

\* C3 as claimed: on every table with at least one price that coerces,
\* handle_missing_values returns a table in which a missing price is the
\* median of the coerced prices and every other price is its coerced value.
C3_MissingPriceIsMedian ==
    (/\ last.op = "handle_missing_values"
     /\ HasCol(last.before, PRICE)
     /\ Known(CoercedColumn(last.before, PRICE, TRUE)) # {}) =>
        LET p == CoercedColumn(last.before, PRICE, TRUE)
        IN  /\ ~last.raised
            /\ \A r \in 1..NRows(last.before) :
                 LET c == Column(last.ret, PRICE)[r]
                 IN  IF IsNa(p[r]) THEN c.k = "float" /\ 2 * c.v = TwiceMedian(p)
                     ELSE c = p[r]

\* No price of t coerces to a value.
NoPriceCoerces(t) == Known(CoercedColumn(t, PRICE, TRUE)) = {}

\* C4 as claimed: on every table in which no price coerces, every price after
\* handle_missing_values is 0.0, and remove_invalid_rows applied to the result
\* returns no row.
C4_NoPriceGivesZeroThenEmpty ==
    /\ (last.op = "handle_missing_values" /\ NoPriceCoerces(last.before)) =>
          /\ ~last.raised
          /\ \A r \in 1..NRows(last.ret) : Column(last.ret, PRICE)[r] = Float(0)
    /\ (/\ last.op = "remove_invalid_rows"
        /\ prev.op = "handle_missing_values" /\ ~prev.raised
        /\ NoPriceCoerces(prev.before)) =>
          ~last.raised /\ NRows(last.ret) = 0

\* Position of the column of t whose canonical name is name.
CanonPos(t, name) == CHOOSE i \in 1..Len(t.cols) : CanonicalName(t.cols[i].name) = name

\* Raw text rows under the three columns Product, Price and Quantity, in any
\* case and with surrounding whitespace.
PipelineInput(t) ==
    /\ Len(t.cols) = 3
    /\ \A name \in {PRODUCT, PRICE, QUANTITY} :
         \E i \in 1..3 : CanonicalName(t.cols[i].name) = name
    /\ \A r \in 1..NRows(t) : \A i \in 1..3 : t.rows[r][i].k = "str"

\* The column of a raw table the script will call name.
RawColumn(t, name) == [r \in 1..NRows(t) |-> t.rows[r][CanonPos(t, name)]]

\* Twice the imputed price of row r as the claim defines it: the coerced
\* price, else the median, and no value when no price coerces.
TwiceImputedPrice(t, r) ==
    LET p == [i \in 1..NRows(t) |-> ExpectedCoercion(RawColumn(t, PRICE)[i], TRUE)]
    IN  IF ~IsNa(p[r]) THEN 2 * p[r].v
        ELSE IF Known(p) # {} THEN TwiceMedian(p)
        ELSE 0

\* The imputed quantity of row r as the claim defines it: the coerced
\* quantity, else 1.
ImputedQuantity(t, r) ==
    LET q == ExpectedCoercion(RawColumn(t, QUANTITY)[r], FALSE)
    IN  IF IsNa(q) THEN Float(Den) ELSE q

\* The rows the claim says survive the pipeline.
Survives(t, r) ==
    /\ TwiceImputedPrice(t, r) > 0
    /\ StrictlyPositive(ImputedQuantity(t, r))
    /\ Strip(RawColumn(t, PRODUCT)[r].s) # <<>>

Survivors(t) == KeepRows(NRows(t), [r \in 1..NRows(t) |-> Survives(t, r)])

\* An integer cell and a float cell holding the same number.
SameNumber(i, f) == i.k = "int" /\ f.k = "float" /\ i.v * Den = f.v

\* The rows of the spec's scenario, under the test's header.
ScenarioRows ==
    <<RawRow(Str(<<" ", "G", "o", "o", "d">>), Str(<<"$", "1", "0", ".", "0", "0">>), Str(<<"2">>)),
      RawRow(Str(<<"B", "a", "d", "P", "r", "i", "c", "e">>), Str(<<"-", "5", ".", "0", "0">>), Str(<<"1">>)),
      RawRow(Str(<<"N", "o", "Q", "t", "y">>), Str(<<"1", "2", ".", "0", "0">>), Str(<<>>))>>

IsScenario(t) ==
    NRows(t) = 3 /\ PipelineInput(t) /\
    \A r \in 1..3 :
        /\ RawColumn(t, PRODUCT)[r] = ScenarioRows[r].product
        /\ RawColumn(t, PRICE)[r] = ScenarioRows[r].price
        /\ RawColumn(t, QUANTITY)[r] = ScenarioRows[r].quantity

\* The scenario's result: Good at 10.0 times 2 and NoQty at 12.0 times 1.
ScenarioResult(t) ==
    /\ NRows(t) = 2
    /\ Column(t, PRODUCT) = <<Str(<<"G", "o", "o", "d">>), Str(<<"N", "o", "Q", "t", "y">>)>>
    /\ Column(t, PRICE) = <<Float(10 * Den), Float(12 * Den)>>
    /\ Column(t, QUANTITY) = <<IntCell(2), IntCell(1)>>

\* The script has run to its end, or has stopped on an exception.
ScriptEnded == pos = 3 \/ (pos # -1 /\ pc = "crashed")

\* C5 as claimed: the three stages in order, applied to raw text rows under
\* Product / Price / Quantity, return exactly the rows whose imputed price and
\* imputed quantity are above zero and whose trimmed product is not empty, in
\* input order; the scenario's three rows give Good (10.0, 2) and NoQty
\* (12.0, 1).
C5_PipelineKeepsValidRows ==
    (ScriptEnded /\ PipelineInput(raw)) =>
        LET ks == Survivors(raw)
        IN  /\ pos = 3
            /\ NRows(last.ret) = Len(ks)
            /\ \A i \in 1..Len(ks) :
                 /\ Column(last.ret, PRODUCT)[i] = Str(Strip(RawColumn(raw, PRODUCT)[ks[i]].s))
                 /\ Column(last.ret, PRICE)[i].k = "float"
                 /\ 2 * Column(last.ret, PRICE)[i].v = TwiceImputedPrice(raw, ks[i])
                 /\ SameNumber(Column(last.ret, QUANTITY)[i], ImputedQuantity(raw, ks[i]))
            /\ IsScenario(raw) => ScenarioResult(last.ret)

\* The call is one the stages' contracts cover: clean_column_names on any
\* table, handle_missing_values on a normalized one, remove_invalid_rows on
\* one with numeric price and quantity.
InContract ==
    \/ last.op = "clean_column_names"
    \/ last.op = "handle_missing_values" /\ Normalized(last.before)
    \/ last.op = "remove_invalid_rows" /\ FilterInput(last.before)

\* C7 as claimed: no stage raises, whatever the data: colliding column names,
\* a missing price or quantity column, arbitrary text in the cells.
C7_NoStageRaises == InContract => ~last.raised

\* C8 as claimed: a stage leaves the table it was given unchanged.
C8_ArgumentUnchanged == last.op # "none" => last.after = last.before

\* The names of the columns of t, in order.
Names(t) == [i \in 1..Len(t.cols) |-> t.cols[i].name]

\* The same stage was called twice in a row, the second time on the first
\* call's result.
Reapplied(op) == last.op = op /\ prev.op = op /\ ~prev.raised

\* C10 as claimed: each stage applied to its own output changes nothing: the
\* column names for clean_column_names, the price and quantity values for
\* handle_missing_values, the table for remove_invalid_rows.
C10_StagesIdempotent ==
    /\ Reapplied("clean_column_names") =>
          ~last.raised /\ Names(last.ret) = Names(prev.ret)
    /\ Reapplied("handle_missing_values") =>
          /\ ~last.raised
          /\ Column(last.ret, PRICE) = Column(prev.ret, PRICE)
          /\ Column(last.ret, QUANTITY) = Column(prev.ret, QUANTITY)
    /\ Reapplied("remove_invalid_rows") =>
          ~last.raised /\ last.ret = prev.ret

\* ------------------------------------------------ what holds besides

\* Every number the model computes lies on the float grid.
OnGrid(t) == \A r \in 1..NRows(t) : \A i \in 1..Len(t.cols) : t.rows[r][i].k # "offgrid"

GridExact == OnGrid(df) /\ OnGrid(last.ret) /\ OnGrid(last.after)

\* The text of a float is in scientific notation.
Scientific(c) == c.k = "float" /\ \E i \in 1..Len(FloatStr(c.v)) : FloatStr(c.v)[i] = "e"

\* A call within its contract raises in two cases only: clean_column_names
\* when two names canonicalise alike, handle_missing_values when a quantity
\* coerces to an infinity.
RaisesOnlyOnCollisionOrInfinity ==
    (InContract /\ last.raised) =>
        \/ last.op = "clean_column_names" /\ DuplicateNames(Rename(last.before))
        \/ /\ last.op = "handle_missing_values"
           /\ \E r \in 1..NRows(last.before) :
                 CoercedColumn(last.before, QUANTITY, FALSE)[r].k \in {"inf", "ninf"}

\* Whenever handle_missing_values returns, its result is as C2, C3 and C4
\* describe it.
HandleRightWhenItReturns ==
    last.raised \/
        (C2_QuantityFilledWithOne /\ C3_MissingPriceIsMedian /\ C4_NoPriceGivesZeroThenEmpty)

\* Only handle_missing_values changes the table it is given.
OnlyHandleChangesItsArgument ==
    (last.op # "none" /\ last.after # last.before) => last.op = "handle_missing_values"

\* Reapplying handle_missing_values changes a price only when the text of a
\* price is in scientific notation; it never changes a quantity.
ReapplyingHandleChangesOnlyScientificPrices ==
    Reapplied("handle_missing_values") =>
        /\ ~last.raised
        /\ Column(last.ret, QUANTITY) = Column(prev.ret, QUANTITY)
        /\ (\A r \in 1..NRows(prev.ret) : ~Scientific(Column(prev.ret, PRICE)[r])) =>
              Column(last.ret, PRICE) = Column(prev.ret, PRICE)

\* The scenario's rows go through the script as the spec says.
ScenarioHolds == (IsScenario(raw) /\ pos = 3) => ScenarioResult(last.ret)

\* Whenever the script runs to its end on raw text rows, the rows it returns
\* are those whose imputed price and truncated imputed quantity are above
\* zero and whose trimmed product is not empty.
PipelineRightWithTruncation ==
    (pos = 3 /\ PipelineInput(raw)) =>
        LET ok == [r \in 1..NRows(raw) |->
                      /\ TwiceImputedPrice(raw, r) > 0
                      /\ Truncated(ImputedQuantity(raw, r)).v > 0
                      /\ Strip(RawColumn(raw, PRODUCT)[r].s) # <<>>]
            ks == KeepRows(NRows(raw), ok)
        IN  /\ NRows(last.ret) = Len(ks)
            /\ \A i \in 1..Len(ks) :
                 /\ Column(last.ret, PRODUCT)[i] = Str(Strip(RawColumn(raw, PRODUCT)[ks[i]].s))
                 /\ 2 * Column(last.ret, PRICE)[i].v = TwiceImputedPrice(raw, ks[i])
                 /\ Column(last.ret, QUANTITY)[i] = Truncated(ImputedQuantity(raw, ks[i]))

====
